---- MODULE Spec2Model ----
(***************************************************************************)
(* Model of the frida agent build service (src/main.py): the bridge-import *)
(* scanner and injector, and the POST /compile handler with its workspace  *)
(* lifecycle and its pipeline of external commands.                        *)
(*                                                                         *)
(* Text (source code, file names) is a sequence of one-character strings,  *)
(* so the regular expressions and the suffix tests of the code are         *)
(* computed character by character.                                        *)
(***************************************************************************)
EXTENDS Naturals, Integers, Sequences, FiniteSets, TLC

(***************************************************************************)
(* Bounds of the model.                                                    *)
(***************************************************************************)
\* longest text of the injector specification, in fragments
MaxFrags == 3
\* most members of an uploaded zip archive
MaxMembers == 2

(***************************************************************************)
(* Character classes of Python's re module, restricted to ASCII.           *)
(***************************************************************************)
WordChars ==
  {"a","b","c","d","e","f","g","h","i","j","k","l","m","n","o","p","q","r",
   "s","t","u","v","w","x","y","z","A","B","C","D","E","F","G","H","I","J",
   "K","L","M","N","O","P","Q","R","S","T","U","V","W","X","Y","Z","0","1",
   "2","3","4","5","6","7","8","9","_"}
SpaceChars == {" ", "\t", "\n", "\r", "\f"}
QuoteChars == {"\"", "'"}

IsWord(c) == c \in WordChars
IsSpace(c) == c \in SpaceChars
IsQuote(c) == c \in QuoteChars

(***************************************************************************)
(* Literals of the source.                                                 *)
(***************************************************************************)
KwImport == <<"i","m","p","o","r","t">>
KwFrom == <<"f","r","o","m">>
FridaDash == <<"f","r","i","d","a","-">>
DashBridge == <<"-","b","r","i","d","g","e">>
NL == <<"\n">>

Java == <<"J","a","v","a">>
ObjC == <<"O","b","j","C">>
Swift == <<"S","w","i","f","t">>
JavaPkg == <<"f","r","i","d","a","-","j","a","v","a","-","b","r","i","d","g","e">>
ObjCPkg == <<"f","r","i","d","a","-","o","b","j","c","-","b","r","i","d","g","e">>
SwiftPkg == <<"f","r","i","d","a","-","s","w","i","f","t","-","b","r","i","d","g","e">>
\* variant: an import the scanner's expression does not recognise
JavaStmt_SideEffectImport == <<"i","m","p","o","r","t"," ","\"","f","r","i","d","a","-","j","a","v","a","-","b","r","i","d","g","e","\"",";">>
JavaStmt == <<"i","m","p","o","r","t"," ","J","a","v","a"," ","f","r","o","m"," ","\"","f","r","i","d","a","-","j","a","v","a","-","b","r","i","d","g","e","\"",";">>
ObjCStmt == <<"i","m","p","o","r","t"," ","O","b","j","C"," ","f","r","o","m"," ","\"","f","r","i","d","a","-","o","b","j","c","-","b","r","i","d","g","e","\"",";">>
SwiftStmt == <<"i","m","p","o","r","t"," ","S","w","i","f","t"," ","f","r","o","m"," ","\"","f","r","i","d","a","-","s","w","i","f","t","-","b","r","i","d","g","e","\"",";">>

\* variant: the capabilities in another order
BRIDGE_MAPPINGS_Reordered ==
  << [keyword |-> Swift, pkg_name |-> SwiftPkg, import_stmt |-> SwiftStmt],
     [keyword |-> ObjC, pkg_name |-> ObjCPkg, import_stmt |-> ObjCStmt],
     [keyword |-> Java, pkg_name |-> JavaPkg, import_stmt |-> JavaStmt] >>

\* BRIDGE_MAPPINGS, in the insertion order a Python dict iterates in
BRIDGE_MAPPINGS ==
  << [keyword |-> Java, pkg_name |-> JavaPkg, import_stmt |-> JavaStmt],
     [keyword |-> ObjC, pkg_name |-> ObjCPkg, import_stmt |-> ObjCStmt],
     [keyword |-> Swift, pkg_name |-> SwiftPkg, import_stmt |-> SwiftStmt] >>

(***************************************************************************)
(* String helpers.                                                         *)
(***************************************************************************)
\* the literal lit occurs in s at position i (1-based)
HasAt(s, i, lit) ==
  /\ i >= 1
  /\ i + Len(lit) - 1 <= Len(s)
  /\ \A k \in 1..Len(lit) : s[i + k - 1] = lit[k]

\* str.endswith
EndsWith(s, suf) ==
  /\ Len(suf) <= Len(s)
  /\ HasAt(s, Len(s) - Len(suf) + 1, suf)

\* position of the first quote character at or after i, 0 when there is none
FirstQuoteFrom(s, i) ==
  IF \E q \in i..Len(s) : IsQuote(s[q])
  THEN CHOOSE q \in i..Len(s) :
         IsQuote(s[q]) /\ \A j \in i..(q - 1) : ~IsQuote(s[j])
  ELSE 0

(***************************************************************************)
(* FRIDA_BRIDGE_RE:                                                        *)
(*   import(?:\s+[^"']+\s+from\s+)?["'](frida-[^"']+-bridge)["']           *)
(* The two negated classes cannot cross a quote, so the opening quote of a *)
(* match that starts at i is the first quote after "import" and the        *)
(* closing quote is the first quote after "frida-".                        *)
(***************************************************************************)
\* s[p..q-1] is matched by \s+[^"']+\s+from\s+ (q is the first quote >= p)
FromClause(s, p, q) ==
  /\ p < q
  /\ IsSpace(s[p])
  /\ \E k \in (p + 2)..(q - 6) :
       /\ IsSpace(s[k])
       /\ HasAt(s, k + 1, KwFrom)
       /\ \A j \in (k + 5)..(q - 1) : IsSpace(s[j])

\* closing quote of ["'](frida-[^"']+-bridge)["'] matched at q, 0 when no match
BridgeClose(s, q) ==
  IF q >= 1 /\ q <= Len(s) /\ IsQuote(s[q]) /\ HasAt(s, q + 1, FridaDash)
  THEN LET r == FirstQuoteFrom(s, q + 7)
       IN IF r >= q + 15 /\ HasAt(s, r - 7, DashBridge) THEN r ELSE 0
  ELSE 0

\* the match of FRIDA_BRIDGE_RE that starts at i: [open, close], or <<>>
MatchAt(s, i) ==
  IF ~HasAt(s, i, KwImport) THEN <<>>
  ELSE LET p == i + 6
           q == FirstQuoteFrom(s, p)
       IN IF q = 0 THEN <<>>
          ELSE IF (q = p \/ FromClause(s, p, q)) /\ BridgeClose(s, q) # 0
               THEN <<q, BridgeClose(s, q)>>
               ELSE <<>>

\* FRIDA_BRIDGE_RE.finditer(source) from position pos: the groups (1) of the
\* successive non-overlapping leftmost matches
RECURSIVE FindIter(_, _)
FindIter(s, pos) ==
  IF \E i \in pos..Len(s) : MatchAt(s, i) # <<>>
  THEN LET i == CHOOSE i \in pos..Len(s) :
                  MatchAt(s, i) # <<>> /\ \A j \in pos..(i - 1) : MatchAt(s, j) = <<>>
           m == MatchAt(s, i)
       IN {SubSeq(s, m[1] + 1, m[2] - 1)} \cup FindIter(s, m[2] + 1)
  ELSE {}

find_frida_bridges(source) == FindIter(source, 1)

\* re.search(rf"\b{keyword}\b", source): the keyword begins and ends with a
\* word character, so \b asks for a non-word neighbour or the end of the text
KeywordSearch(keyword, source) ==
  \E i \in 1..Len(source) :
    /\ HasAt(source, i, keyword)
    /\ (i = 1 \/ ~IsWord(source[i - 1]))
    /\ (i + Len(keyword) > Len(source) \/ ~IsWord(source[i + Len(keyword)]))

\* "\n".join(lines)
RECURSIVE Join(_)
Join(lines) ==
  IF Len(lines) = 0 THEN <<>>
  ELSE IF Len(lines) = 1 THEN lines[1]
  ELSE lines[1] \o NL \o Join(Tail(lines))

\* the list built by the loop over BRIDGE_MAPPINGS.items()
RECURSIVE InjectionsFrom(_, _, _)
InjectionsFrom(source, existing_imports, k) ==
  IF k > Len(BRIDGE_MAPPINGS) THEN <<>>
  ELSE LET m == BRIDGE_MAPPINGS[k]
           rest == InjectionsFrom(source, existing_imports, k + 1)
       IN IF m.pkg_name \notin existing_imports /\ KeywordSearch(m.keyword, source)
          THEN <<m.import_stmt>> \o rest
          ELSE rest

inject_missing_bridges(source) ==
  LET existing_imports == find_frida_bridges(source)
      injections == InjectionsFrom(source, existing_imports, 1)
  IN IF injections # <<>>
     THEN Join(injections) \o NL \o source
     ELSE source

(***************************************************************************)
(* The file system: the set of directories and the content of each file,   *)
(* keyed by path.  A path is a sequence of components.                     *)
(***************************************************************************)
TEMPDIR == <<"/","t","m","p">>
FRIDA_BUILDS == <<"f","r","i","d","a","_","b","u","i","l","d","s">>
OUTPUT == <<"o","u","t","p","u","t">>
AGENT == <<"a","g","e","n","t">>
TSCONFIG_JSON == <<"t","s","c","o","n","f","i","g",".","j","s","o","n">>
AGENT_JS == <<"_","a","g","e","n","t",".","j","s">>
INDEX_TS == <<"i","n","d","e","x",".","t","s">>
LOGGER_TS == <<"l","o","g","g","e","r",".","t","s">>
DotTs == <<".","t","s">>
DotJs == <<".","j","s">>
DotZip == <<".","z","i","p">>

\* what frida-create writes, and the states of tsconfig.json
T_SCAFFOLD == <<"i","m","p","o","r","t"," ","{"," ","l","o","g"," ","}"," ","f","r","o","m"," ","\"",".","/","l","o","g","g","e","r",".","j","s","\"",";">>
T_LOGGER == <<"e","x","p","o","r","t"," ","f","u","n","c","t","i","o","n"," ","l","o","g","(",")","{","}">>
CONFIG_STRICT == <<"{","\"","c","o","m","p","i","l","e","r","O","p","t","i","o","n","s","\"",":","{","\"","s","t","r","i","c","t","\"",":","t","r","u","e","}","}">>
CONFIG_RELAXED == <<"{","\"","c","o","m","p","i","l","e","r","O","p","t","i","o","n","s","\"",":","{","\"","s","t","r","i","c","t","\"",":","f","a","l","s","e","}","}">>
CONFIG_EMPTY == <<"{","}">>
CONFIG_MALFORMED == <<"{">>

\* p lies at or below the directory root
IsUnder(p, root) ==
  /\ Len(root) <= Len(p)
  /\ SubSeq(p, 1, Len(root)) = root

\* the proper prefixes of p and p itself: what os.makedirs(p) creates
WithParents(p) == {SubSeq(p, 1, n) : n \in 1..Len(p)}

EmptyFs == [dirs |-> {}, files |-> <<>>]

FsExists(f, p) == p \in f.dirs \/ p \in DOMAIN f.files

FsMakedirs(f, p) == [f EXCEPT !.dirs = @ \cup WithParents(p)]

FsWrite(f, p, text) == [f EXCEPT !.files = (p :> text) @@ @]

FsUnlinkAll(f, ps) ==
  [f EXCEPT !.files = [q \in (DOMAIN @) \ ps |-> @[q]]]

\* shutil.rmtree(path), when it succeeds
FsRmtree(f, path) ==
  [dirs |-> {d \in f.dirs : ~IsUnder(d, path)},
   files |-> [q \in {q \in DOMAIN f.files : ~IsUnder(q, path)} |-> f.files[q]]]

\* the files below dir (at any depth) whose name ends with suffix: dir.rglob
Rglob(f, dir, suffix) ==
  {q \in DOMAIN f.files :
     IsUnder(q, dir) /\ Len(q) > Len(dir) /\ EndsWith(q[Len(q)], suffix)}

\* the files directly in dir whose name ends with suffix: dir.glob
Glob(f, dir, suffix) ==
  {q \in Rglob(f, dir, suffix) : Len(q) = Len(dir) + 1}

\* os.path.basename: what follows the last "/"
Basename(name) ==
  LET slashes == {i \in 1..Len(name) : name[i] = "/"}
      last == IF slashes = {} THEN 0
              ELSE CHOOSE i \in slashes : \A j \in slashes : j <= i
  IN SubSeq(name, last + 1, Len(name))

(***************************************************************************)
(* State of the service.                                                   *)
(***************************************************************************)
Requests == {"r1", "r2"}

VARIABLES
  pc,        \* pc[r]: where the handler of request r stands
  req,       \* req[r]: the multipart form of request r
  run_id,    \* run_id[r]: the uuid of the request, <<>> before it is drawn
  uuids,     \* number of uuids drawn so far
  manager,   \* manager[r]: "bun" or "npm" once chosen
  pending,   \* pending[r]: the value or exception leaving the try block
  resp,      \* resp[r]: the response the client has received
  fs,        \* the file system
  cmds,      \* cmds[r]: the external commands run for r, in order
  cleanups,  \* cleanups[r]: the calls of cleanup_directory made for r
  writes,    \* writes[r]: the paths the handler of r has written or unlinked
  itext,     \* injector specification: the text drawn
  ipc,       \* injector specification: how often the injector has run
  iout,      \* inject_missing_bridges(itext)
  iout2      \* inject_missing_bridges(iout)

hvars == <<pc, req, run_id, uuids, manager, pending, resp, fs, cmds,
           cleanups, writes>>

ivars == <<itext, ipc, iout, iout2>>

vars == <<hvars, ivars>>

\* str(uuid.uuid4()): the n-th uuid drawn differs from every earlier one
UuidDigits == <<"1", "2", "3", "4", "5", "6", "7", "8", "9">>
UuidStr(n) == <<"u", UuidDigits[n]>>

\* variant: a build root that does not depend on the run id
BuildRootShared(id) == <<TEMPDIR, FRIDA_BUILDS>>
BuildRoot(id) == <<TEMPDIR, FRIDA_BUILDS, id>>
OutputDir(id) == BuildRoot(id) \o <<OUTPUT>>
AgentDir(id) == OutputDir(id) \o <<AGENT>>

build_root(r) == BuildRoot(run_id[r])
output_dir(r) == OutputDir(run_id[r])
agent_dir(r) == AgentDir(run_id[r])

NoResponse == [status |-> 0, body |-> <<>>]
NoPending == [kind |-> "none", status |-> 0, body |-> <<>>]

InitHandler ==
  /\ pc = [r \in Requests |-> "idle"]
  /\ req = [r \in Requests |->
             [upload |-> [present |-> FALSE, filename |-> <<>>, kind |-> "text",
                          text |-> <<>>, members |-> <<>>],
              snippet |-> [present |-> FALSE, text |-> <<>>]]]
  /\ run_id = [r \in Requests |-> <<>>]
  /\ uuids = 0
  /\ manager = [r \in Requests |-> ""]
  /\ pending = [r \in Requests |-> NoPending]
  /\ resp = [r \in Requests |-> NoResponse]
  /\ fs = EmptyFs
  /\ cmds = [r \in Requests |-> <<>>]
  /\ cleanups = [r \in Requests |-> <<>>]
  /\ writes = [r \in Requests |-> {}]

(***************************************************************************)
(* The injector on its own: a text is drawn, inject_missing_bridges is     *)
(* applied to it, and then applied again to its own output.                *)
(***************************************************************************)
\* the pieces the texts of the injector specification are made of
Frags ==
  { JavaStmt, ObjCStmt,
    Java, <<"O","b","j","C",".">>, <<" ","S","w","i","f","t">>,
    KwImport, <<"\"">> \o SwiftPkg \o <<"'">>,
    <<" ">>, <<"x">>, <<"'">>, <<".">>, NL,
    <<" ", "f", "r", "o", "m", "\t">> }

RECURSIVE TextsUpTo(_)
TextsUpTo(n) ==
  IF n = 0 THEN {<<>>}
  ELSE LET shorter == TextsUpTo(n - 1)
       IN shorter \cup {t \o f : t \in shorter, f \in Frags}

Texts == TextsUpTo(MaxFrags)

InitInject ==
  /\ itext \in Texts
  /\ ipc = "drawn"
  /\ iout = <<>>
  /\ iout2 = <<>>
  /\ InitHandler

InjectOnce ==
  /\ ipc = "drawn"
  /\ iout' = inject_missing_bridges(itext)
  /\ ipc' = "once"
  /\ UNCHANGED <<itext, iout2, hvars>>

InjectTwice ==
  /\ ipc = "once"
  /\ iout2' = inject_missing_bridges(iout)
  /\ ipc' = "twice"
  /\ UNCHANGED <<itext, iout, hvars>>

NextInject == InjectOnce \/ InjectTwice

SpecInject == InitInject /\ [][NextInject]_vars

(***************************************************************************)
(* POST /compile, one action per block of compile_agent.                   *)
(***************************************************************************)
\* Python truthiness of request.files.get("file") and request.forms.get("snippet")
UploadTruthy(form) == form.upload.present
SnippetTruthy(form) == form.snippet.present /\ form.snippet.text # <<>>

HTTPError(status, body) == [kind |-> "HTTPError", status |-> status, body |-> body]
Exception(message) == [kind |-> "Exception", status |-> 0, body |-> <<message>>]

\* an exception leaves the try block: control goes to the except clauses
Raise(r, exc) ==
  /\ pending' = [pending EXCEPT ![r] = exc]
  /\ pc' = [pc EXCEPT ![r] = "cleanup"]

\* what a successful frida-create leaves in its working directory
ScaffoldVariants == {"full", "bare", "nooptions", "malformed"}

\* what subprocess.run can do: exit 0, exit non-zero with or without output,
\* or fail to start the program at all (OSError, not caught by run_command)
CommandResults ==
  { [kind |-> "ok", output |-> "done"],
    [kind |-> "nonzero", output |-> ""],
    [kind |-> "nonzero", output |-> "error: step failed"],
    [kind |-> "oserror", output |-> ""] }

\* what the environment of a handler may do: the results of its commands,
\* what the scaffold leaves, whether bun is installed, whether the bundler
\* leaves its output file
FullEnv ==
  [results |-> CommandResults, variants |-> ScaffoldVariants,
   bun |-> BOOLEAN, written |-> BOOLEAN]

\* the environment of the concurrent specification
FewEnv ==
  [results |-> {res \in CommandResults : res.kind = "nonzero" => res.output # ""},
   variants |-> {"full"}, bun |-> {TRUE}, written |-> {TRUE}]

ErrorDetail(output) ==
  IF output # "" THEN output ELSE "No output captured from process."

BuildStepFailed(output) ==
  HTTPError(500, <<"Build step failed:\n", ErrorDetail(output)>>)

\* run_command(command, cwd) with result res: the command is logged; a
\* non-zero exit raises HTTPError(500), a failure to start raises OSError
run_command(r, argv, deps, cwd, res) ==
  /\ cmds' = [cmds EXCEPT ![r] =
                Append(@, [argv |-> argv, deps |-> deps, cwd |-> cwd,
                           kind |-> res.kind, output |-> res.output])]
  /\ IF res.kind = "ok"
     THEN pending' = pending
     ELSE IF res.kind = "nonzero"
          THEN pending' = [pending EXCEPT ![r] = BuildStepFailed(res.output)]
          ELSE pending' = [pending EXCEPT ![r] = Exception("No such file or directory")]

\* variant: the check for a file together with a snippet is missing
Validate_NoConflictCheck(r, form) ==
  /\ pc[r] = "idle"
  /\ req' = [req EXCEPT ![r] = form]
  /\ IF ~UploadTruthy(form) /\ ~SnippetTruthy(form)
     THEN /\ resp' = [resp EXCEPT ![r] =
                        [status |-> 400, body |-> <<"No input provided.">>]]
          /\ pc' = [pc EXCEPT ![r] = "done"]
     ELSE /\ resp' = resp
          /\ pc' = [pc EXCEPT ![r] = "validated"]
  /\ UNCHANGED <<run_id, uuids, manager, pending, fs, cmds, cleanups, writes, ivars>>

\* lines 125-134
Validate(r, form) ==
  /\ pc[r] = "idle"
  /\ req' = [req EXCEPT ![r] = form]
  /\ IF UploadTruthy(form) /\ SnippetTruthy(form)
     THEN /\ resp' = [resp EXCEPT ![r] =
                        [status |-> 400, body |-> <<"Provide either a file or a snippet.">>]]
          /\ pc' = [pc EXCEPT ![r] = "done"]
     ELSE IF ~UploadTruthy(form) /\ ~SnippetTruthy(form)
          THEN /\ resp' = [resp EXCEPT ![r] =
                             [status |-> 400, body |-> <<"No input provided.">>]]
               /\ pc' = [pc EXCEPT ![r] = "done"]
          ELSE /\ resp' = resp
               /\ pc' = [pc EXCEPT ![r] = "validated"]
  /\ UNCHANGED <<run_id, uuids, manager, pending, fs, cmds, cleanups, writes, ivars>>

\* lines 136-142: the uuid is drawn, then os.makedirs(build_root) inside try
Allocate(r) ==
  /\ pc[r] = "validated"
  /\ uuids < Len(UuidDigits)
  /\ uuids' = uuids + 1
  /\ run_id' = [run_id EXCEPT ![r] = UuidStr(uuids + 1)]
  /\ \E created \in BOOLEAN :
       IF created
       THEN /\ fs' = FsMakedirs(fs, BuildRoot(UuidStr(uuids + 1)))
            /\ pc' = [pc EXCEPT ![r] = "allocated"]
            /\ pending' = pending
       ELSE /\ fs' = fs
            /\ Raise(r, Exception("Permission denied"))
  /\ UNCHANGED <<req, manager, resp, cmds, cleanups, writes, ivars>>

Scaffolded(f, id, variant) ==
  LET withOutput == FsMakedirs(f, OutputDir(id))
      tsconfig == OutputDir(id) \o <<TSCONFIG_JSON>>
  IN CASE variant = "full" ->
            FsWrite(FsWrite(FsWrite(FsMakedirs(f, AgentDir(id)),
                      tsconfig, CONFIG_STRICT),
                      AgentDir(id) \o <<INDEX_TS>>, T_SCAFFOLD),
                      AgentDir(id) \o <<LOGGER_TS>>, T_LOGGER)
       [] variant = "bare" -> withOutput
       [] variant = "nooptions" -> FsWrite(withOutput, tsconfig, CONFIG_EMPTY)
       [] OTHER -> FsWrite(withOutput, tsconfig, CONFIG_MALFORMED)

\* lines 144-146
Scaffold(r, env) ==
  /\ pc[r] = "allocated"
  /\ \E res \in env.results, variant \in env.variants :
       /\ res.kind # "ok" => variant = "full"
       /\ run_command(r, <<"frida-create", "-t", "agent", "-o", "output">>, {},
                      build_root(r), res)
       /\ IF res.kind = "ok"
          THEN /\ fs' = Scaffolded(fs, run_id[r], variant)
               /\ pc' = [pc EXCEPT ![r] = "scaffolded"]
          ELSE /\ fs' = fs
               /\ pc' = [pc EXCEPT ![r] = "cleanup"]
  /\ UNCHANGED <<req, run_id, uuids, manager, resp, cleanups, writes, ivars>>

\* json.load / json.dump on the states of tsconfig.json the scaffold can leave
JsonValid(text) == text # CONFIG_MALFORMED
HasCompilerOptions(text) == text \in {CONFIG_STRICT, CONFIG_RELAXED}
StrictDisabled(text) == IF HasCompilerOptions(text) THEN CONFIG_RELAXED ELSE text

\* lines 148-158
PatchTsconfig(r) ==
  LET tsconfig_path == output_dir(r) \o <<TSCONFIG_JSON>>
  IN /\ pc[r] = "scaffolded"
     /\ IF tsconfig_path \in DOMAIN fs.files
        THEN IF JsonValid(fs.files[tsconfig_path])
             THEN /\ fs' = FsWrite(fs, tsconfig_path, StrictDisabled(fs.files[tsconfig_path]))
                  /\ writes' = [writes EXCEPT ![r] = @ \cup {tsconfig_path}]
                  /\ pc' = [pc EXCEPT ![r] = "patched"]
                  /\ pending' = pending
             ELSE /\ fs' = fs
                  /\ writes' = writes
                  /\ Raise(r, Exception("Expecting property name enclosed in double quotes"))
        ELSE /\ fs' = fs
             /\ writes' = writes
             /\ pc' = [pc EXCEPT ![r] = "patched"]
             /\ pending' = pending
     /\ UNCHANGED <<req, run_id, uuids, manager, resp, cmds, cleanups, ivars>>

\* variant: the scaffold's own scripts are left in the agent directory
ClearAgent_KeepsScaffold(r) ==
  /\ pc[r] = "patched"
  /\ fs' = FsMakedirs(fs, agent_dir(r))
  /\ pc' = [pc EXCEPT ![r] = "cleared"]
  /\ UNCHANGED <<req, run_id, uuids, manager, pending, resp, cmds, cleanups, writes, ivars>>

\* lines 160-164
ClearAgent(r) ==
  /\ pc[r] = "patched"
  /\ IF agent_dir(r) \in fs.dirs
     THEN /\ fs' = FsUnlinkAll(fs, Glob(fs, agent_dir(r), DotTs))
          /\ writes' = [writes EXCEPT ![r] = @ \cup Glob(fs, agent_dir(r), DotTs)]
     ELSE /\ fs' = FsMakedirs(fs, agent_dir(r))
          /\ writes' = writes
  /\ pc' = [pc EXCEPT ![r] = "cleared"]
  /\ UNCHANGED <<req, run_id, uuids, manager, pending, resp, cmds, cleanups, ivars>>

\* lines 177-185: the members of the archive are copied in order, each to
\* agent_dir / basename, when the basename ends with .ts or .js
IsScriptName(name) == EndsWith(name, DotTs) \/ EndsWith(name, DotJs)

RECURSIVE Extract(_, _, _, _)
Extract(f, dir, members, k) ==
  IF k > Len(members) THEN f
  ELSE LET inner_name == Basename(members[k].filename)
       IN IF inner_name # <<>> /\ IsScriptName(inner_name)
          THEN Extract(FsWrite(f, dir \o <<inner_name>>, members[k].data),
                       dir, members, k + 1)
          ELSE Extract(f, dir, members, k + 1)

ExtractedPaths(dir, members) ==
  {dir \o <<Basename(members[k].filename)>> :
     k \in {k \in 1..Len(members) :
              /\ Basename(members[k].filename) # <<>>
              /\ IsScriptName(Basename(members[k].filename))}}

\* lines 189-196: every *.ts file below the agent directory is rewritten
\* when the injector changes it
InjectedPaths(f, dir, suffixes) ==
  UNION {Rglob(f, dir, suffix) : suffix \in suffixes}

InjectAll(f, paths) ==
  [f EXCEPT !.files =
     [q \in DOMAIN @ |-> IF q \in paths THEN inject_missing_bridges(@[q]) ELSE @[q]]]

ChangedByInjector(f, paths) ==
  {q \in paths : inject_missing_bridges(f.files[q]) # f.files[q]}

\* content.decode("utf-8", errors="ignore") of an upload
T_PK == <<"P","K">>
Decode(upload) == IF upload.kind = "text" THEN upload.text ELSE T_PK

\* lines 166-207
Populate(r) ==
  LET index_path == agent_dir(r) \o <<INDEX_TS>>
      upload == req[r].upload
  IN /\ pc[r] = "cleared"
     /\ IF SnippetTruthy(req[r])
        THEN /\ fs' = FsWrite(fs, index_path, inject_missing_bridges(req[r].snippet.text))
             /\ writes' = [writes EXCEPT ![r] = @ \cup {index_path}]
             /\ pc' = [pc EXCEPT ![r] = "populated"]
             /\ pending' = pending
        ELSE IF UploadTruthy(req[r])
        THEN IF EndsWith(upload.filename, DotZip)
             THEN IF upload.kind # "zip"
                  THEN /\ fs' = fs
                       /\ writes' = writes
                       /\ Raise(r, Exception("File is not a zip file"))
                  ELSE LET extracted == Extract(fs, agent_dir(r), upload.members, 1)
                           ts_files == InjectedPaths(extracted, agent_dir(r), {DotTs})
                       IN IF index_path \notin DOMAIN extracted.files
                          THEN /\ fs' = extracted
                               /\ writes' = [writes EXCEPT ![r] =
                                               @ \cup ExtractedPaths(agent_dir(r), upload.members)]
                               /\ Raise(r, HTTPError(400, <<"ZIP must contain an index.ts file.">>))
                          ELSE /\ fs' = InjectAll(extracted, ts_files)
                               /\ writes' = [writes EXCEPT ![r] =
                                               @ \cup ExtractedPaths(agent_dir(r), upload.members)
                                                 \cup ChangedByInjector(extracted, ts_files)]
                               /\ pc' = [pc EXCEPT ![r] = "populated"]
                               /\ pending' = pending
             ELSE /\ fs' = FsWrite(fs, index_path, inject_missing_bridges(Decode(upload)))
                  /\ writes' = [writes EXCEPT ![r] = @ \cup {index_path}]
                  /\ pc' = [pc EXCEPT ![r] = "populated"]
                  /\ pending' = pending
        ELSE /\ fs' = fs
             /\ writes' = writes
             /\ pc' = [pc EXCEPT ![r] = "populated"]
             /\ pending' = pending
     /\ UNCHANGED <<req, run_id, uuids, manager, resp, cmds, cleanups, ivars>>

\* variant: the pipeline goes on after a failed install
Install_Continues(r, env) ==
  /\ pc[r] = "populated"
  /\ \E bun \in env.bun, res \in env.results :
       LET chosen == IF bun THEN "bun" ELSE "npm"
       IN /\ manager' = [manager EXCEPT ![r] = chosen]
          /\ run_command(r, <<chosen, "install", "--ignore-scripts">>, {},
                         output_dir(r), res)
          /\ pc' = [pc EXCEPT ![r] = "installed"]
  /\ UNCHANGED <<req, run_id, uuids, resp, fs, cleanups, writes, ivars>>

\* lines 209-210: shutil.which("bun") decides the package manager
Install(r, env) ==
  /\ pc[r] = "populated"
  /\ \E bun \in env.bun, res \in env.results :
       LET chosen == IF bun THEN "bun" ELSE "npm"
       IN /\ manager' = [manager EXCEPT ![r] = chosen]
          /\ run_command(r, <<chosen, "install", "--ignore-scripts">>, {},
                         output_dir(r), res)
          /\ pc' = [pc EXCEPT ![r] = IF res.kind = "ok" THEN "installed" ELSE "cleanup"]
  /\ UNCHANGED <<req, run_id, uuids, resp, fs, cleanups, writes, ivars>>

\* variant: only the .ts files are scanned
collect_bridge_deps_TsOnly(f, dir) ==
  UNION {find_frida_bridges(f.files[path]) : path \in Rglob(f, dir, DotTs)}

\* lines 92-100
collect_bridge_deps(f, dir) ==
  UNION {find_frida_bridges(f.files[path]) : path \in Rglob(f, dir, DotTs)}
    \cup UNION {find_frida_bridges(f.files[path]) : path \in Rglob(f, dir, DotJs)}

AddArgv(chosen) == IF chosen = "bun" THEN <<"bun", "add">> ELSE <<"npm", "install">>

\* lines 212-219
AddBridgeDeps(r, env) ==
  LET bridge_deps == collect_bridge_deps(fs, agent_dir(r))
  IN /\ pc[r] = "installed"
     /\ IF bridge_deps # {}
        THEN \E res \in env.results :
               /\ run_command(r, AddArgv(manager[r]), bridge_deps, output_dir(r), res)
               /\ pc' = [pc EXCEPT ![r] = IF res.kind = "ok" THEN "deps" ELSE "cleanup"]
        ELSE /\ pc' = [pc EXCEPT ![r] = "deps"]
             /\ UNCHANGED <<cmds, pending>>
     /\ UNCHANGED <<req, run_id, uuids, manager, resp, fs, cleanups, writes, ivars>>

\* what frida-compile writes to _agent.js for a given entry point
Bundle(index_text) == <<"/", "/", "b", "u", "n", "d", "l", "e", "\n">> \o index_text

\* lines 221-224; a successful frida-compile normally leaves _agent.js
Compile(r, env) ==
  LET index_path == agent_dir(r) \o <<INDEX_TS>>
      artifact_path == output_dir(r) \o <<AGENT_JS>>
  IN /\ pc[r] = "deps"
     /\ \E res \in env.results, written \in env.written :
          /\ res.kind # "ok" => written
          /\ run_command(r, <<"frida-compile", "agent/index.ts", "-o", "_agent.js", "-c">>,
                         {}, output_dir(r), res)
          /\ IF res.kind = "ok"
             THEN /\ fs' = IF written /\ index_path \in DOMAIN fs.files
                           THEN FsWrite(fs, artifact_path, Bundle(fs.files[index_path]))
                           ELSE fs
                  /\ pc' = [pc EXCEPT ![r] = "compiled"]
             ELSE /\ fs' = fs
                  /\ pc' = [pc EXCEPT ![r] = "cleanup"]
     /\ UNCHANGED <<req, run_id, uuids, manager, resp, cleanups, writes, ivars>>

\* lines 226-233: static_file returns the file, or an HTTPError(404) object
Serve(r) ==
  LET artifact_path == output_dir(r) \o <<AGENT_JS>>
  IN /\ pc[r] = "compiled"
     /\ pending' = [pending EXCEPT ![r] =
                      IF artifact_path \in DOMAIN fs.files
                      THEN [kind |-> "return", status |-> 200, body |-> fs.files[artifact_path]]
                      ELSE [kind |-> "return", status |-> 404, body |-> <<"File does not exist.">>]]
     /\ pc' = [pc EXCEPT ![r] = "cleanup"]
     /\ UNCHANGED <<req, run_id, uuids, manager, resp, fs, cmds, cleanups, writes, ivars>>

\* lines 55-63: shutil.rmtree either removes the tree or raises; the
\* exception is logged and swallowed.  removed records which happened.
cleanup_directory(r, path, removed) ==
  /\ removed => path \in fs.dirs
  /\ fs' = IF removed THEN FsRmtree(fs, path) ELSE fs
  /\ cleanups' = [cleanups EXCEPT ![r] =
                    Append(@, [path |-> path, removed |-> removed])]

\* variant: only the output subtree is removed on the success path
CleanupOnReturn_OutputOnly(r) ==
  /\ pc[r] = "cleanup"
  /\ pending[r].kind = "return"
  /\ \E removed \in BOOLEAN : cleanup_directory(r, output_dir(r), removed)
  /\ pc' = [pc EXCEPT ![r] = "respond"]
  /\ UNCHANGED <<req, run_id, uuids, manager, pending, resp, cmds, writes, ivars>>

\* lines 235-237
CleanupOnReturn(r) ==
  /\ pc[r] = "cleanup"
  /\ pending[r].kind = "return"
  /\ \E removed \in BOOLEAN : cleanup_directory(r, build_root(r), removed)
  /\ pc' = [pc EXCEPT ![r] = "respond"]
  /\ UNCHANGED <<req, run_id, uuids, manager, pending, resp, cmds, writes, ivars>>

\* lines 239-241
CleanupOnHTTPError(r) ==
  /\ pc[r] = "cleanup"
  /\ pending[r].kind = "HTTPError"
  /\ \E removed \in BOOLEAN : cleanup_directory(r, build_root(r), removed)
  /\ pc' = [pc EXCEPT ![r] = "respond"]
  /\ UNCHANGED <<req, run_id, uuids, manager, pending, resp, cmds, writes, ivars>>

\* variant: the handler of unexpected exceptions forgets the cleanup
CleanupOnException_Skipped(r) ==
  /\ pc[r] = "cleanup"
  /\ pending[r].kind = "Exception"
  /\ pending' = [pending EXCEPT ![r].status = 500]
  /\ pc' = [pc EXCEPT ![r] = "respond"]
  /\ UNCHANGED <<req, run_id, uuids, manager, resp, fs, cmds, cleanups, writes, ivars>>

\* lines 242-244: the exception becomes HTTPError(500, str(e))
CleanupOnException(r) ==
  /\ pc[r] = "cleanup"
  /\ pending[r].kind = "Exception"
  /\ \E removed \in BOOLEAN : cleanup_directory(r, build_root(r), removed)
  /\ pending' = [pending EXCEPT ![r].status = 500]
  /\ pc' = [pc EXCEPT ![r] = "respond"]
  /\ UNCHANGED <<req, run_id, uuids, manager, resp, cmds, writes, ivars>>

\* the framework sends what the handler returned or raised
Respond(r) ==
  /\ pc[r] = "respond"
  /\ resp' = [resp EXCEPT ![r] = [status |-> pending[r].status, body |-> pending[r].body]]
  /\ pc' = [pc EXCEPT ![r] = "done"]
  /\ UNCHANGED <<req, run_id, uuids, manager, pending, fs, cmds, cleanups, writes, ivars>>

(***************************************************************************)
(* The requests the model sends.                                           *)
(***************************************************************************)
T_PLAIN == <<"s","e","n","d","(","1",")",";">>
T_JAVA == <<"J","a","v","a",".","p","e","r","f","o","r","m","(","f",")",";">>
T_OBJC_IMPORTED == <<"i","m","p","o","r","t"," ","O","b","j","C"," ","f","r","o","m"," ","\"","f","r","i","d","a","-","o","b","j","c","-","b","r","i","d","g","e","\"",";","\n","O","b","j","C",".","c","l","a","s","s","e","s",";">>
T_TWO == <<"O","b","j","C",".","a","v","a","i","l","a","b","l","e","|","|","S","w","i","f","t",".","a","v","a","i","l","a","b","l","e">>
T_BAREIMPORT == <<"i","m","p","o","r","t","'","f","r","i","d","a","-","s","w","i","f","t","-","b","r","i","d","g","e","'">>
HELPER_JS == <<"h","e","l","p","e","r",".","j","s">>
LIB_UTIL_TS == <<"l","i","b","/","u","t","i","l",".","t","s">>
LIB_DIR == <<"l","i","b","/">>
README_MD == <<"R","E","A","D","M","E",".","m","d">>
A_ZIP == <<"a",".","z","i","p">>
A_TS == <<"a",".","t","s">>

NoUpload == [present |-> FALSE, filename |-> <<>>, kind |-> "text",
             text |-> <<>>, members |-> <<>>]
NoSnippet == [present |-> FALSE, text |-> <<>>]
Snippet(text) == [present |-> TRUE, text |-> text]
FileUpload(filename, text) ==
  [present |-> TRUE, filename |-> filename, kind |-> "text", text |-> text,
   members |-> <<>>]
ZipUpload(filename, members) ==
  [present |-> TRUE, filename |-> filename, kind |-> "zip", text |-> <<>>,
   members |-> members]

ZipMembers ==
  {[filename |-> n, data |-> d] :
     n \in {INDEX_TS, HELPER_JS, LIB_UTIL_TS}, d \in {T_JAVA, T_OBJC_IMPORTED}}
  \cup {[filename |-> LIB_DIR, data |-> <<>>],
        [filename |-> README_MD, data |-> T_JAVA]}

RECURSIVE ArchivesUpTo(_)
ArchivesUpTo(n) ==
  IF n = 0 THEN {<<>>}
  ELSE LET shorter == ArchivesUpTo(n - 1)
       IN shorter \cup {Append(a, m) : a \in shorter, m \in ZipMembers}

Uploads ==
  {ZipUpload(A_ZIP, a) : a \in ArchivesUpTo(MaxMembers)}
  \cup {FileUpload(n, t) : n \in {A_TS, <<>>}, t \in {T_PLAIN, T_TWO}}
  \cup {FileUpload(A_ZIP, T_PLAIN),
        ZipUpload(A_TS, <<[filename |-> INDEX_TS, data |-> T_JAVA]>>)}

Snippets ==
  {Snippet(t) : t \in {<<>>, T_PLAIN, T_JAVA, T_OBJC_IMPORTED, T_TWO, T_BAREIMPORT}}

Forms ==
  {[upload |-> NoUpload, snippet |-> sn] : sn \in Snippets \cup {NoSnippet}}
  \cup {[upload |-> up, snippet |-> sn] :
          up \in Uploads, sn \in {NoSnippet, Snippet(<<>>)}}
  \cup {[upload |-> up, snippet |-> Snippet(T_JAVA)] :
          up \in {FileUpload(A_TS, T_PLAIN), ZipUpload(A_ZIP, <<>>)}}

\* the requests of the concurrent specification
FewForms ==
  { [upload |-> NoUpload, snippet |-> NoSnippet],
    [upload |-> NoUpload, snippet |-> Snippet(T_JAVA)],
    [upload |-> ZipUpload(A_ZIP, <<[filename |-> HELPER_JS, data |-> T_JAVA]>>),
     snippet |-> NoSnippet],
    [upload |-> ZipUpload(A_ZIP, <<[filename |-> INDEX_TS, data |-> T_PLAIN],
                                   [filename |-> HELPER_JS, data |-> T_OBJC_IMPORTED]>>),
     snippet |-> NoSnippet] }

(***************************************************************************)
(* Specifications.                                                         *)
(***************************************************************************)
Handler(r, forms, env) ==
  \/ \E form \in forms : Validate(r, form)
  \/ Allocate(r)
  \/ Scaffold(r, env)
  \/ PatchTsconfig(r)
  \/ ClearAgent(r)
  \/ Populate(r)
  \/ Install(r, env)
  \/ AddBridgeDeps(r, env)
  \/ Compile(r, env)
  \/ Serve(r)
  \/ CleanupOnReturn(r)
  \/ CleanupOnHTTPError(r)
  \/ CleanupOnException(r)
  \/ Respond(r)

InitUnusedInjector ==
  /\ itext = <<>>
  /\ ipc = "unused"
  /\ iout = <<>>
  /\ iout2 = <<>>

Init == InitHandler /\ InitUnusedInjector

\* one request, every form
Next == Handler("r1", Forms, FullEnv)

Spec == Init /\ [][Next]_vars

\* two requests handled concurrently, interleaved block by block
NextConcurrent == \E r \in Requests : Handler(r, FewForms, FewEnv)

SpecConcurrent == Init /\ [][NextConcurrent]_vars

(***************************************************************************)
(* Properties.                                                             *)
(***************************************************************************)
Allocated(r) == run_id[r] # <<>>
Responded(r) == resp[r] # NoResponse
LastCmd(r) == cmds[r][Len(cmds[r])]

\* C1: once a workspace is allocated, cleanup_directory is called on the
\* request's build_root exactly once on every exit path (return, HTTPError,
\* other exception), never more, and the call precedes the response.
C1_CleanupOnceBeforeResponse ==
  \A r \in Requests :
    /\ Len(cleanups[r]) <= 1
    /\ \A i \in 1..Len(cleanups[r]) : cleanups[r][i].path = build_root(r)
    /\ cleanups[r] # <<>> => Allocated(r) /\ pc[r] \in {"respond", "done"}
    /\ pc[r] = "respond" => Len(cleanups[r]) = 1 /\ ~Responded(r)
    /\ (Allocated(r) /\ Responded(r)) => Len(cleanups[r]) = 1

C1_Witness ==
  /\ pc["r1"] = "done"
  /\ pending["r1"].kind = "Exception"
  /\ resp["r1"].status = 500
  /\ Len(cleanups["r1"]) = 1

\* the request uploads, under a name ending in .zip, a zip archive none of
\* whose members has the base name index.ts, and passes the first validation
ZipWithoutIndex(r) ==
  /\ pc[r] # "idle"
  /\ ~SnippetTruthy(req[r])
  /\ req[r].upload.present
  /\ req[r].upload.kind = "zip"
  /\ EndsWith(req[r].upload.filename, DotZip)
  /\ \A k \in 1..Len(req[r].upload.members) :
       Basename(req[r].upload.members[k].filename) # INDEX_TS

\* C2 as stated: such a request ends with 400 and has run no command.
C2_Original ==
  \A r \in Requests :
    ZipWithoutIndex(r) =>
      /\ cmds[r] = <<>>
      /\ pc[r] = "done" => resp[r].status = 400

\* C2, amended: such a request runs the scaffold generator before the
\* archive is looked at, never runs the package manager or the bundler, and
\* ends with 400 when the scaffold generator succeeded and no unexpected
\* exception was raised, with 500 otherwise.
C2_OnlyScaffoldBefore400 ==
  \A r \in Requests :
    ZipWithoutIndex(r) =>
      /\ Len(cmds[r]) <= 1
      /\ \A i \in 1..Len(cmds[r]) : cmds[r][i].argv[1] = "frida-create"
      /\ pc[r] \notin {"populated", "installed", "deps", "compiled"}
      /\ pc[r] = "done" =>
           /\ resp[r].status \in {400, 500}
           /\ resp[r].status = 400 <=>
                /\ Len(cmds[r]) = 1
                /\ cmds[r][1].kind = "ok"
                /\ pending[r].kind # "Exception"

C2_Witness ==
  /\ ZipWithoutIndex("r1")
  /\ pc["r1"] = "done"
  /\ resp["r1"].status = 400
  /\ Len(cmds["r1"]) = 1
  /\ req["r1"].upload.members # <<>>

\* the form carries both a file and a non-empty snippet, or neither
BothOrNeither(r) ==
  /\ pc[r] # "idle"
  /\ \/ req[r].upload.present /\ SnippetTruthy(req[r])
     \/ ~req[r].upload.present /\ ~SnippetTruthy(req[r])

\* C3: a request with both a file and a snippet, or with neither, is answered
\* 400 at once: no run id, no directory, no file, no command, no cleanup.
C3_RejectedImmediately ==
  \A r \in Requests :
    BothOrNeither(r) =>
      /\ pc[r] = "done"
      /\ resp[r].status = 400
      /\ run_id[r] = <<>>
      /\ uuids = 0
      /\ fs = EmptyFs
      /\ cmds[r] = <<>>
      /\ writes[r] = {}
      /\ cleanups[r] = <<>>

C3_Witness ==
  /\ pc["r1"] = "done"
  /\ req["r1"].upload.present
  /\ SnippetTruthy(req["r1"])
  /\ resp["r1"].status = 400

\* the place of a command in the pipeline
Stage(c) ==
  IF c.argv[1] = "frida-create" THEN 1
  ELSE IF c.argv[1] = "frida-compile" THEN 4
  ELSE IF Len(c.argv) = 3 /\ c.argv[2] = "install" /\ c.argv[3] = "--ignore-scripts" THEN 2
  ELSE 3

Stages(r) == [i \in 1..Len(cmds[r]) |-> Stage(cmds[r][i])]

\* scaffold, install, add only with dependencies, bundler; every command
\* but the last one run has succeeded
PipelineOrder(r) ==
  /\ Stages(r) \in {<<>>, <<1>>, <<1, 2>>, <<1, 2, 3>>, <<1, 2, 4>>, <<1, 2, 3, 4>>}
  /\ \A i \in 1..Len(cmds[r]) : Stage(cmds[r][i]) = 3 => cmds[r][i].deps # {}
  /\ \A i \in 1..(Len(cmds[r]) - 1) : cmds[r][i].kind = "ok"

FailedStep(r) == cmds[r] # <<>> /\ LastCmd(r).kind = "nonzero"

\* C4 as stated: the 500 body is the label followed by the captured output.
C4_Original ==
  \A r \in Requests :
    /\ PipelineOrder(r)
    /\ (FailedStep(r) /\ pc[r] = "done") =>
         resp[r] = [status |-> 500,
                    body |-> <<"Build step failed:\n", LastCmd(r).output>>]

\* C4, amended: the commands run in pipeline order, nothing runs after a
\* command that exits non-zero, nothing is retried, and the request ends
\* with 500 whose body is the label followed by the captured output, or by
\* "No output captured from process." when the command printed nothing.
C4_PipelineHaltsWith500 ==
  \A r \in Requests :
    /\ PipelineOrder(r)
    /\ FailedStep(r) => pc[r] \in {"cleanup", "respond", "done"}
    /\ (FailedStep(r) /\ pc[r] = "done") =>
         resp[r] = [status |-> 500,
                    body |-> <<"Build step failed:\n",
                               IF LastCmd(r).output = ""
                               THEN "No output captured from process."
                               ELSE LastCmd(r).output>>]

C4_Witness ==
  /\ pc["r1"] = "done"
  /\ Stages("r1") = <<1, 2, 3>>
  /\ LastCmd("r1").kind = "nonzero"
  /\ LastCmd("r1").output = ""
  /\ resp["r1"].status = 500

\* the capability is used as a standalone word and its module is not imported
Needs(keyword, pkg_name, text) ==
  KeywordSearch(keyword, text) /\ pkg_name \notin find_frida_bridges(text)

ExpectedPrefix(text) ==
  (IF Needs(Java, JavaPkg, text) THEN JavaStmt \o NL ELSE <<>>)
    \o (IF Needs(ObjC, ObjCPkg, text) THEN ObjCStmt \o NL ELSE <<>>)
    \o (IF Needs(Swift, SwiftPkg, text) THEN SwiftStmt \o NL ELSE <<>>)

Occurs(lit, s) == \E i \in 1..Len(s) : HasAt(s, i, lit)

AllThreeNeeded(text) ==
  /\ Needs(Java, JavaPkg, text)
  /\ Needs(ObjC, ObjCPkg, text)
  /\ Needs(Swift, SwiftPkg, text)

\* C5: the injector returns the imports of exactly the capabilities used as a
\* standalone word and not yet imported, in the order Java, ObjC, Swift, one
\* per line, followed by the text as it was; three unimported capabilities
\* give the three imports once each; an imported module is never injected.
C5_InjectorOutput ==
  ipc \in {"once", "twice"} =>
    /\ iout = ExpectedPrefix(itext) \o itext
    /\ AllThreeNeeded(itext) =>
         iout = JavaStmt \o NL \o ObjCStmt \o NL \o SwiftStmt \o NL \o itext
    /\ \A k \in 1..Len(BRIDGE_MAPPINGS) :
         BRIDGE_MAPPINGS[k].pkg_name \in find_frida_bridges(itext) =>
           ~Occurs(BRIDGE_MAPPINGS[k].import_stmt,
                   SubSeq(iout, 1, Len(iout) - Len(itext)))

C5_Witness ==
  /\ ipc = "once"
  /\ AllThreeNeeded(itext)
  /\ Len(iout) = Len(itext) + Len(JavaStmt) + Len(ObjCStmt) + Len(SwiftStmt) + 3

\* C6: injecting twice gives what injecting once gives: every import the
\* first pass injects is recognised by the second, and a capability the
\* prepended lines mention is imported.
C6_Idempotent ==
  /\ ipc = "twice" => iout2 = iout
  /\ ipc \in {"once", "twice"} =>
       \A k \in 1..Len(BRIDGE_MAPPINGS) :
         LET m == BRIDGE_MAPPINGS[k]
         IN /\ Needs(m.keyword, m.pkg_name, itext) =>
                 m.pkg_name \in find_frida_bridges(iout)
            /\ (KeywordSearch(m.keyword, iout) /\ ~KeywordSearch(m.keyword, itext)) =>
                 m.pkg_name \in find_frida_bridges(iout)

C6_Witness ==
  /\ ipc = "twice"
  /\ iout # itext
  /\ iout2 = iout
  /\ find_frida_bridges(itext) # {}

\* what exists at or below a directory
TreeUnder(f, root) ==
  [dirs |-> {d \in f.dirs : IsUnder(d, root)},
   files |-> [q \in {q \in DOMAIN f.files : IsUnder(q, root)} |-> f.files[q]]]

C7_Paths ==
  \A r \in Requests :
    Allocated(r) =>
      /\ \A s \in Requests \ {r} :
           Allocated(s) => /\ build_root(r) # build_root(s)
                           /\ ~IsUnder(build_root(r), build_root(s))
      /\ \A p \in writes[r] : IsUnder(p, build_root(r))
      /\ \A i \in 1..Len(cmds[r]) : IsUnder(cmds[r][i].cwd, build_root(r))
      /\ \A i \in 1..Len(cleanups[r]) : IsUnder(cleanups[r][i].path, build_root(r))

\* a step of another request leaves the files, the pending result and the
\* response of r as they were
C7_Step ==
  \A r \in Requests :
    pc'[r] = pc[r] =>
      /\ resp'[r] = resp[r]
      /\ pending'[r] = pending[r]
      /\ cmds'[r] = cmds[r]
      /\ Allocated(r) => TreeUnder(fs', build_root(r)) = TreeUnder(fs, build_root(r))

\* C7: two concurrent requests never share a workspace path; the writes, the
\* command working directories and the cleanup of a request stay below its
\* own build_root; no step of one request, failing or not, changes the files
\* or the response of the other.
C7_Isolation == []C7_Paths /\ [][C7_Step]_vars

C7_Witness ==
  /\ pc["r1"] = "done" /\ pc["r2"] = "done"
  /\ Allocated("r1") /\ Allocated("r2")
  /\ resp["r1"].status = 500
  /\ resp["r2"].status = 200
  /\ cmds["r1"] # <<>> /\ LastCmd("r1").kind = "nonzero"

\* C8 as stated: once the response is out, the workspace no longer exists.
C8_Original ==
  \A r \in Requests :
    (pc[r] = "done" /\ Allocated(r)) => ~FsExists(fs, build_root(r))

\* C8, amended: once the response is out, removal of the workspace has been
\* attempted exactly once, and the workspace no longer exists unless that
\* removal failed (the failure is logged and swallowed: the directory leaks).
C8_RemovedUnlessRmtreeFailed ==
  \A r \in Requests :
    (pc[r] = "done" /\ Allocated(r)) =>
      /\ Len(cleanups[r]) = 1
      /\ cleanups[r][1].path = build_root(r)
      /\ cleanups[r][1].removed =>
           TreeUnder(fs, build_root(r)) = EmptyFs

C8_Witness ==
  /\ pc["r1"] = "done"
  /\ resp["r1"].status = 200
  /\ cleanups["r1"] = <<[path |-> build_root("r1"), removed |-> TRUE]>>
  /\ ~FsExists(fs, build_root("r1"))

\* a script that uses a capability as a standalone word without importing it
Unrepaired(text) ==
  \E k \in 1..Len(BRIDGE_MAPPINGS) :
    Needs(BRIDGE_MAPPINGS[k].keyword, BRIDGE_MAPPINGS[k].pkg_name, text)

ScriptsIn(f, dir) == Rglob(f, dir, DotTs) \cup Rglob(f, dir, DotJs)

\* C9: when the install step is about to start, every .ts and .js file of
\* the agent directory has been through the injector: none uses Java, ObjC
\* or Swift as a standalone word without importing its bridge module.
C9_AllScriptsInjected ==
  \A r \in Requests :
    pc[r] = "populated" =>
      \A q \in ScriptsIn(fs, agent_dir(r)) : ~Unrepaired(fs.files[q])

\* the module names imported by the scripts of the agent directory
BridgeDependencySet(r) ==
  UNION {find_frida_bridges(fs.files[q]) : q \in ScriptsIn(fs, agent_dir(r))}

AddCmds(r) == {i \in 1..Len(cmds[r]) : Stage(cmds[r][i]) = 3}

\* C10: after a successful install the add step runs if and only if the
\* Bridge Dependency Set is not empty, with exactly the names of the set and
\* with the package manager of the install step; with an empty set the
\* bundler follows the install step directly.
C10_AddStep ==
  \A r \in Requests :
    /\ pc[r] = "installed" => AddCmds(r) = {}
    /\ (pc[r] \in {"deps", "compiled"}
          \/ (pc[r] = "cleanup" /\ Len(cmds[r]) >= 3)) =>
         LET wanted == BridgeDependencySet(r)
         IN /\ wanted # {} <=> AddCmds(r) = {3}
            /\ wanted = {} => AddCmds(r) = {}
            /\ \A i \in AddCmds(r) :
                 /\ cmds[r][i].deps = wanted
                 /\ cmds[r][i].argv[1] = cmds[r][2].argv[1]
                 /\ cmds[r][i].argv[1] = manager[r]
                 /\ cmds[r][i].cwd = cmds[r][2].cwd
                 /\ cmds[r][i].argv = IF manager[r] = "bun" THEN <<"bun", "add">>
                                      ELSE <<"npm", "install">>
            /\ (wanted = {} /\ pc[r] = "compiled") => Stages(r) = <<1, 2, 4>>

C10_Witness ==
  /\ pc["r1"] = "compiled"
  /\ manager["r1"] = "npm"
  /\ Stages("r1") = <<1, 2, 3, 4>>
  /\ cmds["r1"][3].deps = {JavaPkg, ObjCPkg}

====
